---- MODULE Spec2Model ----
(***************************************************************************)
(* Download pipeline of phalanx-nem: the thread-pool variant               *)
(* (src/download.py), the cooperative-task variant                         *)
(* (src/scripts/download.py) and generate_urls.                            *)
(***************************************************************************)
EXTENDS Integers, Sequences, FiniteSets, TLC

\* ---------------------------------------------------------------- bounds
MaxFails == 5        \* longest run of failing answers a server script holds
MaxBatch == 2        \* links in a batch of the thread-pool variant
MaxPoolLinks == 6    \* links in the batch that saturates the pool
MaxCoopLinks == 3    \* links in a batch of the cooperative variant
MaxPages == 2        \* listing URLs the driver queries
MaxAnchors == 2      \* anchors on a listing page

\* ------------------------------------------------------- program constants
max_attempts == 5
backoff_factor == 2
max_workers == 5

\* ------------------------------------------------------------ data model
\* What session.get / client.get hands to download_file: a status, or an
\* exception of the HTTP library.
Status(n) == [raised |-> FALSE, status |-> n]
RequestException == [raised |-> TRUE, status |-> 0]
FailResponses == {Status(403), Status(404), RequestException}

\* A file of the destination directory.
Absent == [present |-> FALSE, valid |-> FALSE, members |-> {}]
Archive(valid, members) == [present |-> TRUE, valid |-> valid, members |-> members]
Plain == [present |-> TRUE, valid |-> FALSE, members |-> {}]

Stems == {"f1", "f2", "f3", "f4", "f5", "f6", "f7", "f8"}
StemOf(i) == CASE i = 1 -> "f1" [] i = 2 -> "f2" [] i = 3 -> "f3" [] i = 4 -> "f4"
               [] i = 5 -> "f5" [] i = 6 -> "f6" [] i = 7 -> "f7" [] OTHER -> "f8"
MemberNames == {<<"a", "CSV">>, <<"b", "CSV">>}
FileUniverse == (Stems \X {"zip", "CSV"}) \cup MemberNames

FileNameOther(link) == <<"f8", link.file[2]>>
\* link.split('/')[-1]
FileName(link) == link.file
EndsWithZipUpper(file) == file[2] = "ZIP"
\* file_path.endswith('.zip')
EndsWithZip(file) == file[2] = "zip"

Rep(r, k) == [j \in 1..k |-> r]
SeqsUpTo(S, n) == UNION {[1..k -> S] : k \in 0..n}

VARIABLES
  links,      \* the list handed to download_files
  server,     \* per submitted link: the answers of the server and of the disk
  \* thread-pool variant
  tdrv,       \* position of download_files
  submitted,  \* number of links handed to executor.submit
  tpc,        \* per link: position of its download_file call
  attempt,    \* per link: the attempt parameter of the innermost call
  treqs,      \* per link: number of session.get calls made
  tsleeps,    \* per link: the sleep_time values slept, in order
  tout,       \* per link: outcome of the future
  tdir,       \* destination directory
  tcollected, \* futures consumed by the as_completed loop
  failed_downloads,
  \* cooperative-task variant
  cdrv,       \* position of download_files
  cpc,        \* per link: position of its download_file coroutine
  creqs,      \* per link: number of client.get calls made
  cout,       \* per link: outcome of the coroutine
  cdir,       \* destination directory
  level,      \* fill level of the limiter's bucket
  burst,      \* requests issued since time last advanced
  ccollected, \* tasks consumed by the as_completed loop
  results,    \* the results list of download_files
  creturned,  \* the list download_files returns
  \* generate_urls
  gpc, start_date, end_date, current_date, urls,
  \* the drivers' report after download_files
  treport,    \* what main logs at the end (thread-pool variant)
  creport,    \* what process_downloads logs at the end (cooperative variant)
  \* link discovery
  pages,      \* per listing URL: how the server answers it and its anchors
  tfst,       \* thread-pool main: position of the loop over the listing URLs
  tfi,        \* thread-pool main: the listing URL the loop is at
  tall,       \* thread-pool main: all_links
  tferr,      \* thread-pool variant: number of logged access errors
  cfst,       \* process_downloads: position of the loop over the listing URLs
  cfi,        \* process_downloads: the listing URL the loop is at
  cattempts,  \* fetch_file_links of the cooperative variant: attempts
  call,       \* process_downloads: all_links
  cferr       \* cooperative variant: number of logged access errors

tvars == <<tdrv, submitted, tpc, attempt, treqs, tsleeps, tout, tdir, tcollected,
           failed_downloads>>
cvars == <<cdrv, cpc, creqs, cout, cdir, level, burst, ccollected, results, creturned>>
gvars == <<gpc, start_date, end_date, current_date, urls>>
mvars == <<treport, creport>>
fvars == <<pages, tfst, tfi, tall, tferr, cfst, cfi, cattempts, call, cferr>>
vars == <<links, server, tvars, cvars, gvars, mvars, fvars>>

N == Len(links)
Idx == 1..N

\* The answer to the n-th request for the i-th submitted link.
Resp(i, n) == IF n <= Len(server[i].fails) THEN server[i].fails[n] ELSE Status(200)

\* ------------------------------------------------- thread-pool variant
CanRetryEarly(a) == a < max_attempts - 1
CanRetryLate(a) == a <= max_attempts
\* attempt < max_attempts
CanRetry(a) == a < max_attempts
SleepTimeLinear(a) == backoff_factor * a
\* sleep_time = backoff_factor ** attempt
SleepTime(a) == backoff_factor ^ a

RunningAwake(i) == tpc[i] \notin {"queued", "done", "sleep"}
Running(i) == tpc[i] \notin {"queued", "done"}
NumRunning == Cardinality({i \in Idx : Running(i)})
PoolUnbounded(n) == TRUE
\* ThreadPoolExecutor(max_workers=5): a new worker only below max_workers
PoolHasIdleWorker(n) == n < max_workers

\* executor.submit in the dict comprehension of download_files
TSubmit ==
  /\ tdrv = "submit"
  /\ IF submitted < N
       THEN submitted' = submitted + 1 /\ tdrv' = tdrv
       ELSE submitted' = submitted /\ tdrv' = "collect"
  /\ UNCHANGED <<cvars, gvars, mvars, fvars>>
  /\ UNCHANGED <<links, server, tpc, attempt, treqs, tsleeps, tout, tdir, tcollected,
                 failed_downloads>>

\* a worker thread of the pool takes the next work item off the queue
TStart(i) ==
  /\ tpc[i] = "queued"
  /\ i <= submitted
  /\ \A j \in 1..(i-1) : tpc[j] # "queued"
  /\ PoolHasIdleWorker(NumRunning)
  /\ tpc' = [tpc EXCEPT ![i] = "get"]
  /\ UNCHANGED <<cvars, gvars, mvars, fvars>>
  /\ UNCHANGED <<links, server, tdrv, submitted, attempt, treqs, tsleeps, tout, tdir,
                 tcollected, failed_downloads>>

TGetAppends(i) ==
  /\ tpc[i] = "get"
  /\ treqs' = [treqs EXCEPT ![i] = @ + 1]
  /\ LET r == Resp(i, treqs[i] + 1) IN
       IF ~r.raised /\ r.status = 200
         THEN /\ tpc' = [tpc EXCEPT ![i] = "write"]
              /\ UNCHANGED <<tsleeps, tout, failed_downloads>>
         ELSE IF CanRetry(attempt[i])
           THEN /\ tsleeps' = [tsleeps EXCEPT ![i] = Append(@, SleepTime(attempt[i]))]
                /\ tpc' = [tpc EXCEPT ![i] = "sleep"]
                /\ UNCHANGED <<tout, failed_downloads>>
           ELSE /\ tpc' = [tpc EXCEPT ![i] = "done"]
                /\ tout' = [tout EXCEPT ![i] = "false"]
                /\ failed_downloads' = Append(failed_downloads, links[i])
                /\ UNCHANGED tsleeps
  /\ UNCHANGED <<cvars, gvars, mvars, fvars>>
  /\ UNCHANGED <<links, server, tdrv, submitted, attempt, tdir, tcollected>>

\* session.get and the dispatch on its answer
TGet(i) ==
  /\ tpc[i] = "get"
  /\ treqs' = [treqs EXCEPT ![i] = @ + 1]
  /\ LET r == Resp(i, treqs[i] + 1) IN
       IF ~r.raised /\ r.status = 200
         THEN /\ tpc' = [tpc EXCEPT ![i] = "write"]
              /\ UNCHANGED <<tsleeps, tout>>
         ELSE IF CanRetry(attempt[i])
           THEN /\ tsleeps' = [tsleeps EXCEPT ![i] = Append(@, SleepTime(attempt[i]))]
                /\ tpc' = [tpc EXCEPT ![i] = "sleep"]
                /\ UNCHANGED tout
           ELSE /\ tpc' = [tpc EXCEPT ![i] = "done"]
                /\ tout' = [tout EXCEPT ![i] = "false"]
                /\ UNCHANGED tsleeps
  /\ UNCHANGED <<cvars, gvars, mvars, fvars>>
  /\ UNCHANGED <<links, server, tdrv, submitted, attempt, tdir, tcollected,
                 failed_downloads>>

\* time.sleep ends; download_file(link, base_directory, attempt + 1)
TWake(i) ==
  /\ tpc[i] = "sleep"
  /\ attempt' = [attempt EXCEPT ![i] = @ + 1]
  /\ tpc' = [tpc EXCEPT ![i] = "get"]
  /\ UNCHANGED <<cvars, gvars, mvars, fvars>>
  /\ UNCHANGED <<links, server, tdrv, submitted, treqs, tsleeps, tout, tdir, tcollected,
                 failed_downloads>>

\* open(file_path, 'wb') and f.write(response.content)
TWrite(i) ==
  /\ tpc[i] = "write"
  /\ LET file == FileName(links[i]) IN
       CASE server[i].disk = "ok" ->
              /\ tdir' = [tdir EXCEPT ![file] = Archive(server[i].valid, server[i].members)]
              /\ IF EndsWithZip(file)
                   THEN tpc' = [tpc EXCEPT ![i] = "unzip"] /\ UNCHANGED tout
                   ELSE tpc' = [tpc EXCEPT ![i] = "done"]
                        /\ tout' = [tout EXCEPT ![i] = "true"]
         [] server[i].disk = "open_fails" ->
              /\ tdir' = tdir
              /\ tpc' = [tpc EXCEPT ![i] = "done"]
              /\ tout' = [tout EXCEPT ![i] = "raise"]
         [] OTHER ->
              /\ tdir' = [tdir EXCEPT ![file] = Plain]
              /\ tpc' = [tpc EXCEPT ![i] = "done"]
              /\ tout' = [tout EXCEPT ![i] = "raise"]
  /\ UNCHANGED <<cvars, gvars, mvars, fvars>>
  /\ UNCHANGED <<links, server, tdrv, submitted, attempt, treqs, tsleeps, tcollected,
                 failed_downloads>>

\* zipfile.ZipFile(file_path) and extractall
TUnzip(i) ==
  /\ tpc[i] = "unzip"
  /\ LET f == tdir[FileName(links[i])] IN
       IF f.present /\ f.valid
         THEN /\ tdir' = [x \in FileUniverse |-> IF x \in f.members THEN Plain ELSE tdir[x]]
              /\ tpc' = [tpc EXCEPT ![i] = "remove"]
              /\ UNCHANGED tout
         ELSE /\ tdir' = tdir
              /\ tpc' = [tpc EXCEPT ![i] = "done"]
              /\ tout' = [tout EXCEPT ![i] = "raise"]
  /\ UNCHANGED <<cvars, gvars, mvars, fvars>>
  /\ UNCHANGED <<links, server, tdrv, submitted, attempt, treqs, tsleeps, tcollected,
                 failed_downloads>>

\* os.remove(file_path); return True, link
TRemove(i) ==
  /\ tpc[i] = "remove"
  /\ LET file == FileName(links[i]) IN
       IF tdir[file].present
         THEN /\ tdir' = [tdir EXCEPT ![file] = Absent]
              /\ tout' = [tout EXCEPT ![i] = "true"]
         ELSE /\ tdir' = tdir
              /\ tout' = [tout EXCEPT ![i] = "raise"]
  /\ tpc' = [tpc EXCEPT ![i] = "done"]
  /\ UNCHANGED <<cvars, gvars, mvars, fvars>>
  /\ UNCHANGED <<links, server, tdrv, submitted, attempt, treqs, tsleeps, tcollected,
                 failed_downloads>>

\* one turn of the as_completed loop: future.result() and the append
TCollect(i) ==
  /\ tdrv = "collect"
  /\ i \notin tcollected
  /\ tpc[i] = "done"
  /\ tcollected' = tcollected \cup {i}
  /\ CASE tout[i] = "raise" -> tdrv' = "unwind" /\ UNCHANGED failed_downloads
       [] tout[i] = "false" -> failed_downloads' = Append(failed_downloads, links[i])
                               /\ UNCHANGED tdrv
       [] OTHER -> UNCHANGED <<tdrv, failed_downloads>>
  /\ UNCHANGED <<cvars, gvars, mvars, fvars>>
  /\ UNCHANGED <<links, server, submitted, tpc, attempt, treqs, tsleeps, tout, tdir>>

\* the loop ends, the with block shuts the pool down, return failed_downloads
TReturn ==
  /\ tdrv = "collect"
  /\ tcollected = Idx
  /\ tdrv' = "returned"
  /\ UNCHANGED <<cvars, gvars, mvars, fvars>>
  /\ UNCHANGED <<links, server, submitted, tpc, attempt, treqs, tsleeps, tout, tdir,
                 tcollected, failed_downloads>>

TUnwindNoWait ==
  /\ tdrv = "unwind"
  /\ tdrv' = "raised"
  /\ UNCHANGED <<cvars, gvars, mvars, fvars>>
  /\ UNCHANGED <<links, server, submitted, tpc, attempt, treqs, tsleeps, tout, tdir,
                 tcollected, failed_downloads>>

\* an exception of future.result() leaves the with block: shutdown(wait=True)
\* waits for every submitted call, then the exception leaves download_files
TUnwind ==
  /\ tdrv = "unwind"
  /\ \A i \in Idx : tpc[i] = "done"
  /\ tdrv' = "raised"
  /\ UNCHANGED <<cvars, gvars, mvars, fvars>>
  /\ UNCHANGED <<links, server, submitted, tpc, attempt, treqs, tsleeps, tout, tdir,
                 tcollected, failed_downloads>>

\* main after download_files: the error summary, or the success message
TReport ==
  /\ tdrv = "returned"
  /\ treport = "none"
  /\ treport' = IF failed_downloads # <<>> THEN "error" ELSE "success"
  /\ UNCHANGED <<links, server, tvars, cvars, gvars, creport, fvars>>

NextThread ==
  \/ TSubmit
  \/ \E i \in Idx : TStart(i)
  \/ \E i \in Idx : TGet(i)
  \/ \E i \in Idx : TWake(i)
  \/ \E i \in Idx : TWrite(i)
  \/ \E i \in Idx : TUnzip(i)
  \/ \E i \in Idx : TRemove(i)
  \/ \E i \in Idx : TCollect(i)
  \/ TReturn
  \/ TUnwind
  \/ TReport


\* --------------------------------------------- cooperative-task variant
max_requests_per_second == 2

HasCapacityOffByOne(lvl) == lvl <= max_requests_per_second
\* AsyncLimiter.has_capacity for amount 1
HasCapacity(lvl) == lvl + 1 <= max_requests_per_second

InFlight(i) == cpc[i] \in {"inflight", "reading"}
NumInFlight == Cardinality({i \in Idx : InFlight(i)})

\* setup_session, the list of coroutines, asyncio.as_completed(tasks)
CStart ==
  /\ cdrv = "setup"
  /\ cdrv' = "collect"
  /\ cpc' = [i \in Idx |-> "acquire"]
  /\ UNCHANGED <<links, server, tvars, gvars, mvars, fvars>>
  /\ UNCHANGED <<creqs, cout, cdir, level, burst, ccollected, results, creturned>>

\* async with limiter is entered, client.get(link) is issued
CAcquire(i) ==
  /\ cpc[i] = "acquire"
  /\ HasCapacity(level)
  /\ level' = level + 1
  /\ burst' = burst + 1
  /\ creqs' = [creqs EXCEPT ![i] = @ + 1]
  /\ cpc' = [cpc EXCEPT ![i] = "inflight"]
  /\ UNCHANGED <<links, server, tvars, gvars, mvars, fvars>>
  /\ UNCHANGED <<cdrv, cout, cdir, ccollected, results, creturned>>

\* one time_period / max_rate passes: the bucket leaks one unit
CTick ==
  /\ level > 0
  /\ level' = level - 1
  /\ burst' = 0
  /\ UNCHANGED <<links, server, tvars, gvars, mvars, fvars>>
  /\ UNCHANGED <<cdrv, cpc, creqs, cout, cdir, ccollected, results, creturned>>

\* the answer of client.get arrives; on 200 the file is opened for writing
CResponse(i) ==
  /\ cpc[i] = "inflight"
  /\ LET r == Resp(i, creqs[i])
         file == FileName(links[i]) IN
       IF ~r.raised /\ r.status = 200
         THEN IF server[i].disk = "open_fails"
                THEN /\ cpc' = [cpc EXCEPT ![i] = "done"]
                     /\ cout' = [cout EXCEPT ![i] = "false"]
                     /\ cdir' = cdir
                ELSE /\ cpc' = [cpc EXCEPT ![i] = "reading"]
                     /\ cdir' = [cdir EXCEPT ![file] = Plain]
                     /\ cout' = cout
         ELSE /\ cpc' = [cpc EXCEPT ![i] = "done"]
              /\ cout' = [cout EXCEPT ![i] = "false"]
              /\ cdir' = cdir
  /\ UNCHANGED <<links, server, tvars, gvars, mvars, fvars>>
  /\ UNCHANGED <<cdrv, creqs, level, burst, ccollected, results, creturned>>

\* response.read() completes: f.write, then ZipFile, extractall and os.remove
CBody(i) ==
  /\ cpc[i] = "reading"
  /\ LET file == FileName(links[i])
         body == Archive(server[i].valid, server[i].members)
         \* a file unlinked since it was opened takes the bytes out of sight
         written == IF cdir[file].present THEN [cdir EXCEPT ![file] = body] ELSE cdir
         f == written[file] IN
       IF server[i].disk = "write_fails"
         THEN /\ cout' = [cout EXCEPT ![i] = "false"]
              /\ cdir' = cdir
         ELSE IF ~EndsWithZip(file)
           THEN /\ cout' = [cout EXCEPT ![i] = "true"]
                /\ cdir' = written
           ELSE IF f.present /\ f.valid
             THEN /\ cout' = [cout EXCEPT ![i] = "true"]
                  /\ cdir' = [x \in FileUniverse |->
                                IF x = file THEN Absent
                                ELSE IF x \in f.members THEN Plain ELSE written[x]]
             ELSE /\ cout' = [cout EXCEPT ![i] = "false"]
                  /\ cdir' = written
  /\ cpc' = [cpc EXCEPT ![i] = "done"]
  /\ UNCHANGED <<links, server, tvars, gvars, mvars, fvars>>
  /\ UNCHANGED <<cdrv, creqs, level, burst, ccollected, results, creturned>>

\* one turn of the as_completed loop: result = await f; results.append(result)
CCollect(i) ==
  /\ cdrv = "collect"
  /\ i \notin ccollected
  /\ cpc[i] = "done"
  /\ ccollected' = ccollected \cup {i}
  /\ results' = Append(results, [success |-> cout[i] = "true", url |-> links[i]])
  /\ UNCHANGED <<links, server, tvars, gvars, mvars, fvars>>
  /\ UNCHANGED <<cdrv, cpc, creqs, cout, cdir, level, burst, creturned>>

RECURSIVE FailedOf(_)
\* [url for success, url in results if not success]
FailedOf(rs) ==
  IF rs = <<>> THEN <<>>
  ELSE IF Head(rs).success THEN FailedOf(Tail(rs))
       ELSE <<Head(rs).url>> \o FailedOf(Tail(rs))

\* client.close(); return the failed links
CReturn ==
  /\ cdrv = "collect"
  /\ ccollected = Idx
  /\ cdrv' = "returned"
  /\ creturned' = FailedOf(results)
  /\ UNCHANGED <<links, server, tvars, gvars, mvars, fvars>>
  /\ UNCHANGED <<cpc, creqs, cout, cdir, level, burst, ccollected, results>>

\* process_downloads after download_files: the error summary, or success
CReport ==
  /\ cdrv = "returned"
  /\ creport = "none"
  /\ creport' = IF creturned # <<>> THEN "error" ELSE "success"
  /\ UNCHANGED <<links, server, tvars, cvars, gvars, treport, fvars>>

NextCoop ==
  \/ CStart
  \/ \E i \in Idx : CAcquire(i)
  \/ CTick
  \/ \E i \in Idx : CResponse(i)
  \/ \E i \in Idx : CBody(i)
  \/ \E i \in Idx : CCollect(i)
  \/ CReturn
  \/ CReport

\* download_files of the thread-pool variant has returned or raised
ThreadOver == tdrv \in {"returned", "raised"}

\* ---------------------------------------------------------- generate_urls
\* a datetime.date(year, month, 1) is the pair <<year, month>>
DateLeq(a, b) == a[1] < b[1] \/ (a[1] = b[1] /\ a[2] <= b[2])
LoopCondExclusive(cur, end) == DateLeq(cur, end) /\ cur # end
\* the while condition
LoopCond(cur, end) == DateLeq(cur, end)
\* the step to the first day of the next month
NextMonth(d) == IF d[2] = 12 THEN <<d[1] + 1, 1>> ELSE <<d[1], d[2] + 1>>
StrfMUnpadded(m) == IF m < 10 THEN <<m>> ELSE <<m \div 10, m % 10>>
\* strftime('%m'): two decimal digits
StrfM(m) == <<m \div 10, m % 10>>
\* base_url of generate_urls
archive_base_url == "https://nemweb.com.au/Data_Archive/Wholesale_Electricity/MMSDM/"
\* the f-string of the URL: the base, the year twice, the month once, and the
\* two fixed directories
Url(d) ==
  [base |-> archive_base_url,
   year |-> d[1],
   dir |-> <<"MMSDM", d[1], StrfM(d[2])>>,
   tail |-> <<"MMSDM_Historical_Data_SQLLoader", "P5MIN_ALL_DATA">>]

GStep ==
  /\ gpc = "loop"
  /\ LoopCond(current_date, end_date)
  /\ urls' = Append(urls, Url(current_date))
  /\ current_date' = NextMonth(current_date)
  /\ UNCHANGED <<links, server, tvars, cvars, gpc, start_date, end_date, mvars, fvars>>

GReturn ==
  /\ gpc = "loop"
  /\ ~LoopCond(current_date, end_date)
  /\ gpc' = "done"
  /\ UNCHANGED <<links, server, tvars, cvars, start_date, end_date, current_date, urls,
                 mvars, fvars>>

NextUrls == GStep \/ GReturn

\* ------------------------------------------------------- link discovery
fetch_max_attempts == 3

\* An anchor's href: the file it names, how it begins ("/" root-relative,
\* "http" absolute, "rel" relative to the page) and whether white space
\* surrounds it.  NoHref is an anchor without the attribute (get gives None).
NoHref == [name |-> "none", lead |-> "none", ws |-> FALSE]
Hrefs ==
  { [name |-> "REGION", lead |-> f[1], ws |-> f[2]] :
      f \in {<<"/", FALSE>>, <<"/", TRUE>>, <<"rel", FALSE>>, <<"http", FALSE>>} }
    \cup { [name |-> "UNIT", lead |-> "/", ws |-> FALSE] }

\* target_file_patterns: each pattern is the set of file names it matches
target_file_patterns == << {"REGION"} >>

\* href.strip()
Strip(h) == [h EXCEPT !.ws = FALSE]
\* href.startswith('/')
StartsWithSlash(h) == h.lead = "/" /\ ~h.ws
\* any(re.match(pattern, href) for pattern in target_file_patterns)
AnyMatch(h) == \E k \in 1..Len(target_file_patterns) : h.name \in target_file_patterns[k]
\* f"{base_url}{href}", or the href as it is
FullUrl(withBase, h) == [base |-> withBase, href |-> h]

RECURSIVE TLinks(_)
\* the for loop of fetch_file_links, thread-pool variant
TLinks(anchors) ==
  IF anchors = <<>> THEN <<>>
  ELSE LET href == Strip(Head(anchors)) IN
       (IF AnyMatch(href) THEN <<FullUrl(StartsWithSlash(href), href)>> ELSE <<>>)
         \o TLinks(Tail(anchors))

RECURSIVE CLinks(_)
\* the list comprehension of fetch_file_links, cooperative variant
CLinks(anchors) ==
  IF anchors = <<>> THEN <<>>
  ELSE LET a == Head(anchors) IN
       (IF AnyMatch(Strip(a)) THEN <<FullUrl(StartsWithSlash(a), Strip(a))>> ELSE <<>>)
         \o CLinks(Tail(anchors))

\* link.get('href') is None for some anchor: .strip() raises AttributeError
HrefMissing(anchors) == \E j \in 1..Len(anchors) : anchors[j] = NoHref

\* session.get(url) behind HTTPAdapter(max_retries=Retry(total=3, status_forcelist=...)):
\* a page that keeps answering 503 ends in RetryError, a dead connection in
\* ConnectionError
TListGet(answer) ==
  CASE answer = "200" -> Status(200)
    [] answer = "404" -> Status(404)
    [] OTHER -> RequestException

\* client.get(url) of the RetryClient: the last 503 is handed back, a dead
\* connection ends in ClientError
CListGet(answer) ==
  CASE answer = "200" -> Status(200)
    [] answer = "404" -> Status(404)
    [] answer = "503" -> Status(503)
    [] OTHER -> RequestException

\* main, thread-pool variant: links = fetch_file_links(url); all_links.extend(links)
TFetch ==
  /\ tfst = "loop"
  /\ tfi <= Len(pages)
  /\ LET pg == pages[tfi]
         r == TListGet(pg.answer) IN
       IF r.raised \/ (r.status = 200 /\ HrefMissing(pg.anchors))
         THEN tfst' = "raised" /\ UNCHANGED <<tfi, tall, tferr>>
         ELSE IF r.status # 200
           THEN tferr' = tferr + 1 /\ tfi' = tfi + 1 /\ UNCHANGED <<tfst, tall>>
           ELSE tall' = tall \o TLinks(pg.anchors) /\ tfi' = tfi + 1
                /\ UNCHANGED <<tfst, tferr>>
  /\ UNCHANGED <<links, server, tvars, cvars, gvars, mvars>>
  /\ UNCHANGED <<pages, cfst, cfi, cattempts, call, cferr>>

\* main, thread-pool variant: the loop is over, download_files(all_links, ...)
TDispatch ==
  /\ tfst = "loop"
  /\ tfi > Len(pages)
  /\ tfst' = "dispatch"
  /\ UNCHANGED <<links, server, tvars, cvars, gvars, mvars>>
  /\ UNCHANGED <<pages, tfi, tall, tferr, cfst, cfi, cattempts, call, cferr>>

\* one turn of the while loop of fetch_file_links, cooperative variant, and
\* all_links.extend(links) of process_downloads when the call returns
CFetchAttempt ==
  /\ cfst = "loop"
  /\ cfi <= Len(pages)
  /\ LET pg == pages[cfi]
         r == CListGet(pg.answer) IN
       IF ~r.raised /\ r.status = 200
         THEN IF HrefMissing(pg.anchors)
                THEN cfst' = "raised" /\ UNCHANGED <<cfi, cattempts, call, cferr>>
                ELSE /\ call' = call \o CLinks(pg.anchors)
                     /\ cfi' = cfi + 1 /\ cattempts' = 0
                     /\ UNCHANGED <<cfst, cferr>>
         ELSE /\ cferr' = cferr + 1
              /\ IF cattempts + 1 < fetch_max_attempts
                   THEN cattempts' = cattempts + 1 /\ cfi' = cfi
                   ELSE cattempts' = 0 /\ cfi' = cfi + 1
              /\ UNCHANGED <<cfst, call>>
  /\ UNCHANGED <<links, server, tvars, cvars, gvars, mvars>>
  /\ UNCHANGED <<pages, tfst, tfi, tall, tferr>>

\* process_downloads: the loop is over, download_files(all_links, ...)
CDispatch ==
  /\ cfst = "loop"
  /\ cfi > Len(pages)
  /\ cfst' = "dispatch"
  /\ UNCHANGED <<links, server, tvars, cvars, gvars, mvars>>
  /\ UNCHANGED <<pages, tfst, tfi, tall, tferr, cfi, cattempts, call, cferr>>

NextFetch == TFetch \/ TDispatch \/ CFetchAttempt \/ CDispatch

\* ------------------------------------------------------------ initial states
Scripts(fails, valids, disks, membersets) ==
  [fails : fails, valid : valids, disk : disks, members : membersets]

\* a list of n links with pairwise distinct file names
DistinctLinks(n, exts) ==
  {l \in [1..n -> [dir : {"2024_01"}, file : Stems \X exts]] :
     \A i \in 1..n : l[i].file[1] = StemOf(i)}

InitThreadVars ==
  /\ tdrv = "submit"
  /\ submitted = 0
  /\ tpc = [i \in Idx |-> "queued"]
  /\ attempt = [i \in Idx |-> 1]
  /\ treqs = [i \in Idx |-> 0]
  /\ tsleeps = [i \in Idx |-> <<>>]
  /\ tout = [i \in Idx |-> "none"]
  /\ tdir = [x \in FileUniverse |-> Absent]
  /\ tcollected = {}
  /\ failed_downloads = <<>>
  /\ treport = "none"

InitCoopVars ==
  /\ cdrv = "setup"
  /\ cpc = [i \in Idx |-> "new"]
  /\ creqs = [i \in Idx |-> 0]
  /\ cout = [i \in Idx |-> "none"]
  /\ cdir = [x \in FileUniverse |-> Absent]
  /\ level = 0
  /\ burst = 0
  /\ ccollected = {}
  /\ results = <<>>
  /\ creturned = <<>>
  /\ creport = "none"

\* no listing URL to query
InitNoFetch ==
  /\ pages = <<>>
  /\ tfst = "loop" /\ tfi = 1 /\ tall = <<>> /\ tferr = 0
  /\ cfst = "loop" /\ cfi = 1 /\ cattempts = 0 /\ call = <<>> /\ cferr = 0

InitUrlVars(dates) ==
  /\ gpc = "loop"
  /\ start_date \in dates
  /\ end_date \in dates
  /\ current_date = start_date
  /\ urls = <<>>

NoUrls == {<<2024, 1>>}
AllMembers == {{<<"a", "CSV">>, <<"b", "CSV">>}}
Disks == {"ok", "open_fails", "write_fails"}

\* one link, every server script of at most MaxFails failing answers; the
\* thread-pool variant runs, then the cooperative variant on the same input
InitEquiv ==
  /\ links \in DistinctLinks(1, {"zip", "CSV"})
  /\ server \in [1..1 -> Scripts(SeqsUpTo(FailResponses, MaxFails), BOOLEAN, Disks,
                                 AllMembers)]
  /\ InitThreadVars
  /\ InitCoopVars
  /\ InitUrlVars(NoUrls)
  /\ InitNoFetch

NextEquiv ==
  \/ TSubmit
  \/ \E i \in Idx : TStart(i)
  \/ \E i \in Idx : TGet(i)
  \/ \E i \in Idx : TWake(i)
  \/ \E i \in Idx : TWrite(i)
  \/ \E i \in Idx : TUnzip(i)
  \/ \E i \in Idx : TRemove(i)
  \/ \E i \in Idx : TCollect(i)
  \/ TReturn
  \/ TUnwind
  \/ TReport
  \/ ThreadOver /\ CStart
  \/ \E i \in Idx : CAcquire(i)
  \/ CTick
  \/ \E i \in Idx : CResponse(i)
  \/ \E i \in Idx : CBody(i)
  \/ \E i \in Idx : CCollect(i)
  \/ CReturn
  \/ CReport

SpecEquiv == InitEquiv /\ [][NextEquiv]_vars

\* a batch of the thread-pool variant: each link succeeds, succeeds after one
\* 403, exhausts its attempts, brings a corrupt archive or hits a disk error
Script(fails, valid, disk) ==
  [fails |-> fails, valid |-> valid, disk |-> disk,
   members |-> {<<"a", "CSV">>, <<"b", "CSV">>}]
BatchScripts ==
  { Script(<<>>, TRUE, "ok"),
    Script(<<Status(403)>>, TRUE, "ok"),
    Script(Rep(Status(404), max_attempts), TRUE, "ok"),
    Script(<<>>, FALSE, "ok"),
    Script(<<>>, TRUE, "write_fails") }

InitBatch ==
  /\ \E n \in 1..MaxBatch : links \in DistinctLinks(n, {"zip"})
  /\ server \in [Idx -> BatchScripts]
  /\ InitThreadVars
  /\ InitCoopVars
  /\ InitUrlVars(NoUrls)
  /\ InitNoFetch

SpecBatch == InitBatch /\ [][NextThread]_vars

\* the same batches, the thread-pool variant and then the cooperative variant
SpecBoth == InitBatch /\ [][NextEquiv]_vars

\* every thread and every task that can take a step is scheduled in the end,
\* and time passes
SpecLive == InitBatch /\ [][NextEquiv]_vars /\ WF_vars(NextEquiv)

\* two links with the same destination file name: the same link twice, or the
\* same file name under two listing directories
DupLinks ==
  { <<[dir |-> "2024_01", file |-> <<"f1", "zip">>],
      [dir |-> d, file |-> <<"f1", "zip">>]>> : d \in {"2024_01", "2024_02"} }

InitDup ==
  /\ links \in DupLinks
  /\ server \in [Idx -> BatchScripts]
  /\ InitThreadVars
  /\ InitCoopVars
  /\ InitUrlVars(NoUrls)
  /\ InitNoFetch

SpecDup == InitDup /\ [][NextEquiv]_vars

\* a batch longer than the pool is wide: the first link is an archive that
\* answers after one 403 or is corrupt, the others answer 200 at once or all
\* after one 403
PoolLinks(n) ==
  [i \in 1..n |-> [dir |-> "2024_01", file |-> <<StemOf(i), IF i = 1 THEN "zip" ELSE "CSV">>]]
PoolScripts == {Script(<<>>, TRUE, "ok"), Script(<<Status(403)>>, TRUE, "ok")}
PoolHeadScripts == {Script(<<Status(403)>>, TRUE, "ok"), Script(<<>>, FALSE, "ok")}

InitPool ==
  /\ links = PoolLinks(MaxPoolLinks)
  /\ \E h \in PoolHeadScripts : \E s \in PoolScripts :
       server = [i \in Idx |-> IF i = 1 THEN h ELSE s]
  /\ InitThreadVars
  /\ InitCoopVars
  /\ InitUrlVars(NoUrls)
  /\ InitNoFetch

SpecPool == InitPool /\ [][NextThread]_vars

\* a batch of the cooperative variant, longer than the limiter's rate
CoopScripts ==
  { Script(<<>>, TRUE, "ok"),
    Script(<<Status(403)>>, TRUE, "ok"),
    Script(<<>>, FALSE, "ok") }

InitCoop ==
  /\ links \in DistinctLinks(MaxCoopLinks, {"zip"})
  /\ server \in [Idx -> CoopScripts]
  /\ InitThreadVars
  /\ InitCoopVars
  /\ InitUrlVars(NoUrls)
  /\ InitNoFetch

SpecCoop == InitCoop /\ [][NextCoop]_vars

\* listing pages: answered 200 with up to MaxAnchors anchors, or never 200
Pages ==
  { [answer |-> "200", anchors |-> a] : a \in SeqsUpTo(Hrefs \cup {NoHref}, MaxAnchors) }
    \cup { [answer |-> x, anchors |-> <<>>] : x \in {"404", "503", "neterr"} }

InitFetch ==
  /\ links = <<>>
  /\ server = <<>>
  /\ InitThreadVars
  /\ InitCoopVars
  /\ InitUrlVars(NoUrls)
  /\ \E n \in 1..MaxPages : pages \in [1..n -> Pages]
  /\ tfst = "loop" /\ tfi = 1 /\ tall = <<>> /\ tferr = 0
  /\ cfst = "loop" /\ cfi = 1 /\ cattempts = 0 /\ call = <<>> /\ cferr = 0

SpecFetch == InitFetch /\ [][NextFetch]_vars

\* the month ranges generate_urls is called with
NumYears == 3
Dates == (2023..(2023 + NumYears - 1)) \X (1..12)

InitUrls ==
  /\ links = <<>>
  /\ server = <<>>
  /\ InitThreadVars
  /\ InitCoopVars
  /\ InitUrlVars(Dates)
  /\ InitNoFetch

SpecUrls == InitUrls /\ [][NextUrls]_vars

\* ------------------------------------------------------------------ claims
IsZip(i) == links[i].file[2] = "zip"
\* the body of a 200 answer is stored, and extracted if an archive, without error
LocalOk(i) == server[i].disk = "ok" /\ (IsZip(i) => server[i].valid)
All403(i) == \A j \in 1..Len(server[i].fails) : server[i].fails[j] = Status(403)
\* the thread-pool call for link i has had its 200 answer
TGot200(i) == treqs[i] > Len(server[i].fails)
\* the cooperative call for link i has had a 200 answer
CGot200(i) == creqs[i] = 1 /\ server[i].fails = <<>> /\ cpc[i] \in {"reading", "done"}

\* C1: thread-pool variant: a download_file whose server answers 403 exactly
\* k times, k in 0..max_attempts-1, and then 200 (with a body that is stored
\* without a local error) finishes with the outcome (True, link), after
\* k + 1 requests.
C1_RetryThenSuccess ==
  \A i \in Idx :
    (Len(server[i].fails) < max_attempts /\ All403(i) /\ LocalOk(i) /\ tpc[i] = "done")
      => (tout[i] = "true" /\ treqs[i] = Len(server[i].fails) + 1)

C1_Witness ==
  \E i \in Idx : /\ Len(server[i].fails) = max_attempts - 1 /\ All403(i) /\ LocalOk(i)
                  /\ tpc[i] = "done" /\ tout[i] = "true" /\ treqs[i] = max_attempts

\* C2: thread-pool variant: a download_file whose every attempt fails (a
\* non-200 status or a request exception) makes exactly max_attempts
\* requests, then returns (False, link), and never raises.
C2_Exhaustion ==
  \A i \in Idx :
    Len(server[i].fails) >= max_attempts =>
      /\ tout[i] # "raise"
      /\ treqs[i] <= max_attempts
      /\ (tpc[i] = "done" => (treqs[i] = max_attempts /\ tout[i] = "false"))

C2_Witness ==
  \E i \in Idx : /\ Len(server[i].fails) >= max_attempts
                  /\ (\E j \in 1..max_attempts : server[i].fails[j] = RequestException)
                  /\ (\E k \in 1..max_attempts : server[i].fails[k] = Status(403))
                  /\ tpc[i] = "done" /\ tout[i] = "false" /\ treqs[i] = max_attempts

\* C3: thread-pool variant: whatever the per-link failures of a batch,
\* download_files returns normally (it never raises), every link has run to
\* its conclusion when it returns, and the returned list holds every link
\* that did not succeed.
C3_NoFailureIsFatal ==
  /\ tdrv # "raised"
  /\ (tdrv = "returned" =>
       \A i \in Idx :
         /\ tpc[i] = "done"
         /\ (tout[i] # "true" =>
               \E j \in 1..Len(failed_downloads) : failed_downloads[j] = links[i]))

\* C4: in either variant, a download_file that gets status 200 and then fails
\* locally (corrupt archive, or the write fails) returns (False, link)
\* without a further request and without raising.
C4_LocalFailureReturnsFalse ==
  \A i \in Idx :
    ~LocalOk(i) =>
      /\ (tpc[i] = "done" /\ TGot200(i)) =>
            (tout[i] = "false" /\ treqs[i] = Len(server[i].fails) + 1)
      /\ (cpc[i] = "done" /\ CGot200(i)) => cout[i] = "false"

\* C5: thread-pool variant: the number of links whose download_file call has
\* started and not yet returned, the ones sleeping in backoff included, never
\* exceeds the pool size max_workers = 5.
C5_PoolBound == NumRunning <= max_workers

C5_Witness ==
  /\ NumRunning = max_workers
  /\ \E i \in Idx : tpc[i] = "queued" /\ i <= submitted
  /\ \E i \in Idx : tpc[i] = "sleep"

Count(seq, x) == Cardinality({j \in 1..Len(seq) : seq[j] = x})

\* C7: given the same links and the same server answers (no local error),
\* the two variants return the same collection of failed links.
C7_VariantsAgree ==
  (tdrv = "returned" /\ cdrv = "returned" /\ \A i \in Idx : LocalOk(i)) =>
    \A i \in Idx : Count(failed_downloads, links[i]) = Count(creturned, links[i])

MonthIndex(d) == d[1] * 12 + d[2]
UrlMonth(u) == 10 * u.dir[3][1] + u.dir[3][2]

\* C8: for a month range start <= end, generate_urls returns exactly
\* (end.year*12+end.month) - (start.year*12+start.month) + 1 URLs, the first
\* for the start month, each next one for the following month, January of the
\* next year following December.
C8_UrlsPerMonth ==
  (gpc = "done" /\ DateLeq(start_date, end_date)) =>
    /\ Len(urls) = MonthIndex(end_date) - MonthIndex(start_date) + 1
    /\ urls[1].year = start_date[1] /\ UrlMonth(urls[1]) = start_date[2]
    /\ \A j \in 1..Len(urls) : urls[j].dir[2] = urls[j].year
    /\ \A j \in 1..(Len(urls) - 1) :
         IF UrlMonth(urls[j]) = 12
           THEN urls[j+1].year = urls[j].year + 1 /\ UrlMonth(urls[j+1]) = 1
           ELSE urls[j+1].year = urls[j].year /\ UrlMonth(urls[j+1]) = UrlMonth(urls[j]) + 1

C8_Witness ==
  /\ gpc = "done"
  /\ start_date[1] < end_date[1]
  /\ Len(urls) = MonthIndex(end_date) - MonthIndex(start_date) + 1
  /\ \E j \in 1..(Len(urls) - 1) : UrlMonth(urls[j]) = 12 /\ UrlMonth(urls[j+1]) = 1

\* C9 as stated: thread-pool variant: the sleep before attempt i, i in
\* 2..max_attempts, is backoff_factor ** i.
C9_SleepBeforeAttemptIsPowI ==
  \A i \in Idx : \A a \in 2..max_attempts :
    (a - 1 <= Len(tsleeps[i])) => tsleeps[i][a - 1] = backoff_factor ^ a

\* C9 amended: the sleep before attempt i, i in 2..max_attempts, is
\* backoff_factor ** (i - 1): the exponent is the number of the attempt that
\* has just failed.  Attempt i starts right after the (i-1)-th sleep.
C9_SleepBeforeAttemptIsPowPrev ==
  \A i \in Idx :
    /\ \A a \in 2..max_attempts :
         (a - 1 <= Len(tsleeps[i])) => tsleeps[i][a - 1] = backoff_factor ^ (a - 1)
    /\ Len(tsleeps[i]) <= max_attempts - 1
    /\ attempt[i] = Len(tsleeps[i]) + (IF tpc[i] = "sleep" THEN 0 ELSE 1)

C9_Witness ==
  \E i \in Idx : tsleeps[i] = <<2, 4, 8, 16>> /\ attempt[i] = max_attempts /\ tpc[i] = "get"

\* C10: in both variants, when download_file gets status 200 for a link whose
\* file name ends in .zip and the archive is valid (and written), then on
\* return the directory holds every member of the archive, holds no file
\* named basename(link), and the outcome is (True, link).
C10_ValidArchiveExtracted ==
  \A i \in Idx :
    (IsZip(i) /\ server[i].valid /\ server[i].disk = "ok") =>
      /\ (tpc[i] = "done" /\ TGot200(i)) =>
            /\ tout[i] = "true"
            /\ \A m \in server[i].members : tdir[m].present
            /\ ~tdir[links[i].file].present
      /\ (cpc[i] = "done" /\ CGot200(i)) =>
            /\ cout[i] = "true"
            /\ \A m \in server[i].members : cdir[m].present
            /\ ~cdir[links[i].file].present

C10_Witness ==
  \E i \in Idx :
    /\ IsZip(i) /\ server[i].valid /\ server[i].disk = "ok"
    /\ tpc[i] = "done" /\ TGot200(i) /\ tout[i] = "true"
    /\ cpc[i] = "done" /\ CGot200(i) /\ cout[i] = "true"
    /\ server[i].members # {} /\ \A m \in server[i].members : cdir[m].present /\ tdir[m].present

NumFalseT(l) == Cardinality({i \in Idx : links[i] = l /\ tout[i] = "false"})
NumFalseC(l) == Cardinality({i \in Idx : links[i] = l /\ cout[i] = "false"})
C11_Thread ==
  /\ tdrv # "raised"
  /\ \A i \in Idx : tpc[i] = "done" => tout[i] \in {"true", "false"}
  /\ tdrv = "returned" =>
       /\ tcollected = Idx
       /\ \A i \in Idx : Count(failed_downloads, links[i]) = NumFalseT(links[i])
       /\ Len(failed_downloads) = Cardinality({i \in Idx : tout[i] = "false"})
  /\ treport # "none" => (treport = "error" <=> failed_downloads # <<>>)
C11_Coop ==
  /\ \A i \in Idx : cpc[i] = "done" => cout[i] \in {"true", "false"}
  /\ Len(results) = Cardinality(ccollected)
  /\ cdrv = "returned" =>
       /\ Len(results) = N
       /\ \A i \in Idx : Count(creturned, links[i]) = NumFalseC(links[i])
       /\ Len(creturned) = Cardinality({i \in Idx : cout[i] = "false"})
  /\ creport # "none" => (creport = "error" <=> creturned # <<>>)

\* C11: download_files produces exactly one outcome (True or False, link) per
\* submitted link, the list it returns holds exactly the links whose outcome
\* was (False, link), as a multiset, and the driver reports the error summary
\* iff that list is non-empty; in both variants.
C11_OneOutcomePerLink == C11_Thread /\ C11_Coop

\* C12: once a batch is dispatched, every link eventually reaches its own
\* conclusion (its call ends with True, with False or, in the thread-pool
\* variant, with the exception of a local error) provided every enabled step
\* is eventually taken; download_files ends only after every link has
\* concluded; no step takes a dispatched link back to the queue or ends it
\* without its own conclusion.  In both variants.
C12_AllConclude ==
  /\ <>[](\A i \in Idx : tpc[i] = "done" /\ cpc[i] = "done")
  /\ <>(ThreadOver /\ cdrv = "returned")
  /\ [](ThreadOver => \A i \in Idx : tpc[i] = "done" /\ tout[i] # "none")
  /\ [](cdrv = "returned" => \A i \in Idx : cpc[i] = "done" /\ cout[i] # "none")
  /\ [][\A i \in Idx :
         /\ (tpc[i] # "queued" => tpc'[i] # "queued")
         /\ (tpc[i] = "done" => (tpc'[i] = "done" /\ tout'[i] = tout[i]))
         /\ (tpc'[i] = "done" => tout'[i] # "none")
         /\ (cpc[i] \notin {"new", "acquire"} => cpc'[i] \notin {"new", "acquire"})
         /\ (cpc[i] = "done" => (cpc'[i] = "done" /\ cout'[i] = cout[i]))
         /\ (cpc'[i] = "done" => cout'[i] # "none")]_vars

C12_Witness ==
  /\ tdrv = "raised"
  /\ \E i, j \in Idx : /\ tout[i] = "raise" /\ i \in tcollected
                         /\ j \notin tcollected /\ tout[j] \in {"true", "false"}
  /\ cdrv = "returned"
  /\ \E i \in Idx : cout[i] = "false"

RECURSIVE Expected(_)
\* what the claim expects of a page: the matching anchors in document order,
\* every relative one resolved against the base URL
Expected(anchors) ==
  IF anchors = <<>> THEN <<>>
  ELSE LET a == Head(anchors) IN
       (IF a.name = "REGION" THEN <<[base |-> a.lead # "http", href |-> [a EXCEPT !.ws = FALSE]]>>
        ELSE <<>>) \o Expected(Tail(anchors))
RECURSIVE ExpectedAll(_)
ExpectedAll(ps) ==
  IF ps = <<>> THEN <<>>
  ELSE (IF Head(ps).answer = "200" THEN Expected(Head(ps).anchors) ELSE <<>>)
         \o ExpectedAll(Tail(ps))
EveryAnchorHasHref == \A j \in 1..Len(pages) : ~(\E k \in 1..Len(pages[j].anchors) : pages[j].anchors[k] = NoHref)

\* C13: for listing pages answered 200 (whose anchors all carry an href),
\* fetch_file_links returns, in document order, exactly the anchors whose
\* href matches a configured pattern, every relative href resolved against
\* the base URL; in both variants.
C13_MatchingLinksResolved ==
  EveryAnchorHasHref =>
    /\ (tfst = "dispatch" => tall = ExpectedAll(pages))
    /\ (cfst = "dispatch" => call = ExpectedAll(pages))

NumNot200 == Cardinality({j \in 1..Len(pages) : pages[j].answer # "200"})

\* C14: when a listing page never answers 200 (and every anchor of the other
\* pages carries an href), fetch_file_links returns an empty list and logs
\* an error without raising, and the driver goes on to the remaining listing
\* URLs and dispatches the links found on them; in both variants.
C14_FailedListingIsSkipped ==
  EveryAnchorHasHref =>
    /\ tfst # "raised"
    /\ cfst # "raised"
    /\ (tfst = "dispatch" => (tferr = NumNot200 /\ Len(tall) = Len(ExpectedAll(pages))))
    /\ (cfst = "dispatch" =>
         (cferr = fetch_max_attempts * NumNot200 /\ Len(call) = Len(ExpectedAll(pages))))

\* the year and month that lie k months after the date d
MonthsAfter(d, k) ==
  LET n == d[1] * 12 + (d[2] - 1) + k IN <<n \div 12, (n % 12) + 1>>
\* <base>/<year>/MMSDM_<year>_<MM>/MMSDM_Historical_Data_SQLLoader/P5MIN_ALL_DATA/
UrlTemplate(y, mm) ==
  [base |-> "https://nemweb.com.au/Data_Archive/Wholesale_Electricity/MMSDM/",
   year |-> y,
   dir |-> <<"MMSDM", y, mm>>,
   tail |-> <<"MMSDM_Historical_Data_SQLLoader", "P5MIN_ALL_DATA">>]
TwoDigits(m) == <<m \div 10, m % 10>>

\* C15: generate_urls maps each month of the range to the URL
\* <base>/<year>/MMSDM_<year>_<MM>/MMSDM_Historical_Data_SQLLoader/P5MIN_ALL_DATA/
\* with the month as two zero-padded digits; the range 2024-01 to 2024-01
\* yields exactly one URL, the one of MMSDM_2024_01.
C15_UrlTemplate ==
  /\ \A j \in 1..Len(urls) :
       LET d == MonthsAfter(start_date, j - 1) IN
         /\ Len(urls[j].dir[3]) = 2
         /\ urls[j] = UrlTemplate(d[1], TwoDigits(d[2]))
  /\ (gpc = "done" /\ start_date = <<2024, 1>> /\ end_date = <<2024, 1>>) =>
       urls = << UrlTemplate(2024, <<0, 1>>) >>

C15_Witness ==
  /\ gpc = "done"
  /\ start_date = <<2024, 1>> /\ end_date = <<2024, 1>>
  /\ urls = << UrlTemplate(2024, <<0, 1>>) >>

\* the links that hold a worker of the pool, the sleeping ones included
SlotsHeld == Cardinality({i \in Idx : tpc[i] \in {"get", "sleep", "write", "unzip", "remove"}})
WorkerStep(j) == TGet(j) \/ TWake(j) \/ TWrite(j) \/ TUnzip(j) \/ TRemove(j)

C16_State ==
  /\ SlotsHeld <= max_workers
  /\ \A i \in Idx :
       /\ (tpc[i] = "sleep" => (Len(tsleeps[i]) = treqs[i] /\ attempt[i] = treqs[i]))
       /\ (tpc[i] = "sleep" =>
             \A j \in Idx \ {i} :
               (tpc[j] \in {"get", "sleep", "write", "unzip", "remove"}) => ENABLED WorkerStep(j))

C16_Step ==
  \A i \in Idx :
    /\ (treqs'[i] # treqs[i]) =>
         (/\ tpc[i] = "get"
          /\ treqs'[i] = treqs[i] + 1
          /\ Len(tsleeps[i]) = treqs[i]
          /\ attempt[i] = treqs[i] + 1)
    /\ (tpc[i] = "sleep" => tpc'[i] \in {"sleep", "get"})
    /\ ((tpc[i] = "queued" /\ tpc'[i] # "queued") => SlotsHeld < max_workers)

\* C16: thread-pool variant: a link issues request i+1 only after request i
\* has answered and the sleep that follows it has ended (one request at a
\* time per link), a sleeping link keeps its worker (it counts against the
\* max_workers slots and no queued link starts in its place), and while it
\* sleeps every other link that holds a worker can take its next step.
C16_SequentialRetriesHoldSlot == []C16_State /\ [][C16_Step]_vars

C16_Witness ==
  /\ SlotsHeld = max_workers
  /\ \E i \in Idx : tpc[i] = "queued" /\ i <= submitted
  /\ \E i, j \in Idx :
       /\ i # j
       /\ tpc[i] = "sleep"
       /\ tpc[j] = "get" /\ attempt[j] = 2 /\ treqs[j] = 1

\* C17: after a batch has finished, the directory holds no archive file of
\* any archive link that was answered 200, whether the link ended as a
\* success or as a failure; in both variants.
C17_ArchiveNeverPersists ==
  /\ ThreadOver =>
       \A i \in Idx : (IsZip(i) /\ TGot200(i)) => ~tdir[links[i].file].present
  /\ cdrv = "returned" =>
       \A i \in Idx : (IsZip(i) /\ CGot200(i)) => ~cdir[links[i].file].present

C18_Step ==
  /\ (failed_downloads' # failed_downloads) =>
       \E i \in Idx :
         /\ tdrv = "collect" /\ tpc[i] = "done" /\ i \notin tcollected
         /\ tcollected' = tcollected \cup {i}
         /\ failed_downloads' = Append(failed_downloads, links[i])
         /\ UNCHANGED <<tpc, attempt, treqs, tsleeps, tout, tdir>>
  /\ (results' # results) =>
       \E i \in Idx :
         /\ cdrv = "collect" /\ cpc[i] = "done" /\ i \notin ccollected
         /\ ccollected' = ccollected \cup {i}
         /\ Len(results') = Len(results) + 1
         /\ SubSeq(results', 1, Len(results)) = results
         /\ results'[Len(results')].url = links[i]
         /\ UNCHANGED <<cpc, creqs, cout, cdir>>

\* C18: in both variants the outcome list (failed_downloads, results) changes
\* only in a step of the driver's completion loop, which appends the one
\* outcome of the one completed call it consumes; no step of a worker
\* changes the list, and no step appends two outcomes or appends while a
\* worker moves.
C18_OnlyDriverAppends == [][C18_Step]_vars

C18_Witness ==
  /\ Len(failed_downloads) >= 1
  /\ Len(results) >= 1
  /\ \E j \in Idx : cpc[j] \in {"inflight", "reading"}

\* the files of the directory a step has written or deleted
Touched(before, after) == {x \in FileUniverse : after[x] # before[x]}
\* the files the call for link i may write or delete
OwnFiles(i) == {links[i].file} \cup server[i].members
Answered200(i, n) == n >= 1 /\ ~Resp(i, n).raised /\ Resp(i, n).status = 200

C19_Step ==
  /\ \A i \in Idx :
       \* an attempt that is answered without a 200, and the sleep after it
       /\ ((treqs'[i] # treqs[i] /\ ~Answered200(i, treqs'[i])) => tdir' = tdir)
       /\ (tpc[i] = "sleep" /\ tpc'[i] # "sleep" => tdir' = tdir)
       /\ ((cpc[i] = "inflight" /\ cpc'[i] # "inflight" /\ ~Answered200(i, creqs[i]))
             => cdir' = cdir)
       \* a step of the call leaves everything but its own state and the directory
       /\ ((tpc[i] \notin {"queued", "done"} /\ tpc'[i] # tpc[i]) =>
             /\ \A j \in Idx \ {i} :
                  <<tpc[j], attempt[j], treqs[j], tsleeps[j], tout[j]>>'
                    = <<tpc[j], attempt[j], treqs[j], tsleeps[j], tout[j]>>
             /\ UNCHANGED <<links, server, tdrv, submitted, tcollected, failed_downloads,
                            cvars, gvars, mvars, fvars>>)
       /\ ((cpc[i] \in {"inflight", "reading"} /\ cpc'[i] # cpc[i]) =>
             /\ \A j \in Idx \ {i} : <<cpc[j], creqs[j], cout[j]>>' = <<cpc[j], creqs[j], cout[j]>>
             /\ UNCHANGED <<links, server, cdrv, ccollected, results, creturned,
                            tvars, gvars, mvars, fvars>>)
  /\ (tdir' # tdir =>
        \E i \in Idx :
          /\ tpc[i] \in {"write", "unzip", "remove"} /\ tpc'[i] # tpc[i]
          /\ Answered200(i, treqs[i])
          /\ Touched(tdir, tdir') \subseteq OwnFiles(i))
  /\ (cdir' # cdir =>
        \E i \in Idx :
          /\ cpc[i] \in {"inflight", "reading"} /\ cpc'[i] # cpc[i]
          /\ Answered200(i, creqs[i])
          /\ Touched(cdir, cdir') \subseteq OwnFiles(i))

\* C19: in both variants an attempt that ends with a non-200 status or a
\* network exception (and the backoff sleep after it) leaves the destination
\* directory unchanged; the directory changes only in a step of a link that
\* has been answered 200, and then only at <destination>/<basename(link)>
\* and at the members of that archive; a step of download_file changes no
\* state other than the directory and the position of its own call.
C19_FrameOfDownload == [][C19_Step]_vars

C19_Witness ==
  \E i \in Idx :
    /\ IsZip(i)
    /\ Len(server[i].fails) >= 1
    /\ server[i].fails[1] = RequestException
    /\ tout[i] = "true"
    /\ ~tdir[links[i].file].present
    /\ \A x \in server[i].members : tdir[x].present
    /\ cout[i] = "false"
    /\ \A x \in FileUniverse : ~cdir[x].present

\* the outcome the answers to link i determine, the body being a valid
\* archive that the disk stores
TExpected(i) == IF Len(server[i].fails) < max_attempts THEN "true" ELSE "false"
CExpected(i) == IF server[i].fails = <<>> THEN "true" ELSE "false"

\* C20: two links with the same destination file name (their bodies valid
\* archives, the disk working): the concurrent calls do not interfere: each
\* ends with the outcome its own answers determine, and download_files
\* returns without an uncaught exception.
C20_DuplicatesDoNotInterfere ==
  (\A i \in Idx : LocalOk(i)) =>
    /\ tdrv # "raised"
    /\ \A i \in Idx : tpc[i] = "done" => tout[i] = TExpected(i)
    /\ \A i \in Idx : cpc[i] = "done" => cout[i] = CExpected(i)

\* C21: when every listing page is answered 200, whatever anchors the pages
\* hold (anchors without an href attribute included), fetch_file_links
\* returns a list and does not raise, in both variants: the driver reaches
\* the dispatch of the links.
C21_AnyAnchorsNoRaise ==
  (\A j \in 1..Len(pages) : pages[j].answer = "200") =>
    (tfst # "raised" /\ cfst # "raised")

====
